---- MODULE Spec2Model ----
(***************************************************************************)
(* A model of the routing-and-orchestration core:                          *)
(*   - MCPProtocol (server/services/mcpProtocol.js): sessions, agent       *)
(*     instances, message processing, plan execution;                      *)
(*   - MultiLLMRouter (server/services/multimodalScraper.js, second half): *)
(*     model selection, load counters, performance statistics.             *)
(* Every `await` of the source is a suspension point: the code between two *)
(* awaits is one atomic action (JavaScript runs it to completion).         *)
(***************************************************************************)
EXTENDS Integers, Sequences, FiniteSets, TLC

----------------------------------------------------------------------------
(* Bounds of the model                                                     *)

MaxSessions == 2
MaxCalls == 1
MaxTime == 1
MaxUpdates == 3
MaxRoutes == 2
MaxOverlap == 2

----------------------------------------------------------------------------
(* Program constants                                                       *)

DefaultMaxAgents == 5
DefaultTimeout == 300000
PerStepCost == 5000

ErrInvalidSession == "Invalid or inactive session"
ErrAgentNotFound == "Agent not found"
ErrMaxAgents == "Maximum number of agents reached for this session"
ErrAgentMissing == "Agent not found in session"
NoError == "none"

\* initializeProtocol: the agent templates registered at construction,
\* with the tools each definition lists.
RegisteredAgents ==
    [ research_agent       |-> {"web_search", "file_analysis"},
      analysis_agent       |-> {"file_analysis", "calculation"},
      creative_agent       |-> {"content_generation"},
      problem_solver_agent |-> {"calculation", "code_execution"} ]

RegisteredTools ==
    {"web_search", "file_analysis", "content_generation", "calculation", "code_execution"}

----------------------------------------------------------------------------
(* Inputs                                                                  *)

\* sessionConfig as the caller passes it: maxAgents absent, or an integer.
SessionConfigs ==
    {[has |-> FALSE, maxAgents |-> 0]}
        \cup {[has |-> TRUE, maxAgents |-> n] : n \in {-1, 1}}

\* agentId arguments of explicit spawnAgent calls (one is not registered).
SpawnInputs == {"research_agent", "unknown_agent"}

\* A message is described by the keywords its lower-cased text includes and
\* by its length: all that analyzeIntent reads of it.
Messages ==
    { [kw |-> {"search"}, len |-> 32],        \* "search for thermodynamics papers"
      [kw |-> {"create"}, len |-> 34],        \* "Create a presentation about gears"
      [kw |-> {}, len |-> 5] }                \* "hello"

----------------------------------------------------------------------------
VARIABLES
    sessions,     \* this.sessions: sequence of sessions, the id is the index
    contexts,     \* this.contexts: the session ids that have a stored context
    uuid,         \* per session, the uuidv4() values drawn for its instance ids
    calls,        \* the processMessage calls: position and Execution record
    now,          \* the clock read by new Date()
    spawnLog,     \* per session, what successful spawnAgent calls returned
    db,           \* the LLMModel collection: the stored documents, in order
    llmModels,    \* this.llmModels: the documents loaded by initializeModels
    loadBalancer, \* this.loadBalancer: model name -> load counter
    initialized,  \* whether initializeModels' find has resolved
    updates,      \* the updateModelPerformance calls
    routes,       \* the routeRequest calls
    outcomes,     \* per model name, the metrics whose update has been saved
    overlapped    \* per model name, whether two of its updates overlapped

mcpVars == <<sessions, contexts, uuid, calls, now, spawnLog>>

routerVars == <<db, llmModels, loadBalancer, initialized, updates, routes,
                outcomes, overlapped>>

vars == <<sessions, contexts, uuid, calls, now, spawnLog,
          db, llmModels, loadBalancer, initialized, updates, routes,
          outcomes, overlapped>>

SessionIds == 1..MaxSessions
CallIds == 1..MaxCalls

----------------------------------------------------------------------------
(* createSession                                                           *)

\* config.maxAgents: `sessionConfig.maxAgents || 5`, then overwritten by the
\* spread of sessionConfig when the caller gave the key.
ConfigMaxAgents(cfg) ==
    LET defaulted == IF cfg.has /\ cfg.maxAgents # 0 THEN cfg.maxAgents
                     ELSE DefaultMaxAgents
    IN  IF cfg.has THEN cfg.maxAgents ELSE defaulted

\* config.timeout: `sessionConfig.timeout || 300000`; the callers modelled
\* here pass no timeout.
ConfigTimeout(cfg) == DefaultTimeout

NewSession(cfg, t) ==
    [ maxAgents      |-> ConfigMaxAgents(cfg),
      timeout        |-> ConfigTimeout(cfg),
      lastActivity   |-> t,
      activeAgents   |-> {},
      agentContexts  |-> <<>>,
      messageHistory |-> <<>>,
      isActive       |-> TRUE,
      endTime        |-> -1 ]

CreateSession(cfg) ==
    /\ Len(sessions) < MaxSessions
    /\ sessions' = Append(sessions, NewSession(cfg, now))
    /\ contexts' = contexts \cup {Len(sessions) + 1}
    /\ UNCHANGED <<uuid, calls, now, spawnLog>>
    /\ UNCHANGED routerVars

----------------------------------------------------------------------------
(* spawnAgent                                                              *)

\* (variant: the isActive flag is not read)
SessionUsableIgnoringActive(sid) == sid \in DOMAIN sessions

SessionUsable(sid) == sid \in DOMAIN sessions /\ sessions[sid].isActive

\* (variant: the limit is compared with > instead of >=)
AtCapacityOffByOne(session) ==
    Cardinality(session.activeAgents) > session.maxAgents

AtCapacity(session) ==
    Cardinality(session.activeAgents) >= session.maxAgents

\* uuidv4(): a value never drawn before. The model names it by the session
\* it is drawn for and its rank among the values drawn for that session.
Uuid(sid, k) == <<sid, k>>

\* (variant: the id is the agent id alone)
NewInstanceIdNoUuid(agentId, u) == <<agentId, <<0, 0>>>>

\* `${agentId}_${uuidv4()}`
NewInstanceId(agentId, u) == <<agentId, u>>

NewInstance(agentId, sid) ==
    [ agentId |-> agentId, sessionId |-> sid, executionHistory |-> <<>> ]

\* (variant: the capacity is checked before the template)
SpawnErrorCapacityFirst(sid, agentId) ==
    IF ~SessionUsable(sid) THEN ErrInvalidSession
    ELSE IF AtCapacity(sessions[sid]) THEN ErrMaxAgents
    ELSE IF agentId \notin DOMAIN RegisteredAgents THEN ErrAgentNotFound
    ELSE NoError

\* The error spawnAgent throws, or NoError.
SpawnError(sid, agentId) ==
    IF ~SessionUsable(sid) THEN ErrInvalidSession
    ELSE IF agentId \notin DOMAIN RegisteredAgents THEN ErrAgentNotFound
    ELSE IF AtCapacity(sessions[sid]) THEN ErrMaxAgents
    ELSE NoError

\* The session after a successful spawn.
SpawnInto(session, sid, agentId, u) ==
    LET id == NewInstanceId(agentId, u)
    IN  [session EXCEPT
            !.activeAgents = @ \cup {id},
            !.agentContexts = (id :> NewInstance(agentId, sid)) @@ @]

SpawnAgent(sid, agentId) ==
    LET err == SpawnError(sid, agentId)
    IN  /\ IF err = NoError
           THEN LET u == Uuid(sid, uuid[sid] + 1)
                IN  /\ sessions' = [sessions EXCEPT
                                      ![sid] = SpawnInto(@, sid, agentId, u)]
                    /\ uuid' = [uuid EXCEPT ![sid] = @ + 1]
                    /\ spawnLog' = [spawnLog EXCEPT
                                      ![sid] = Append(@, NewInstanceId(agentId, u))]
           ELSE UNCHANGED <<sessions, uuid, spawnLog>>
        /\ UNCHANGED <<contexts, calls, now>>
        /\ UNCHANGED routerVars

----------------------------------------------------------------------------
(* closeSession                                                            *)

\* (variant: closing also empties the agent set)
CloseEffectDroppingAgents(session, t) ==
    [session EXCEPT !.isActive = FALSE, !.endTime = t, !.activeAgents = {}]

CloseEffect(session, t) ==
    [session EXCEPT !.isActive = FALSE, !.endTime = t]

\* (variant: the stored context is kept)
CloseSessionKeepingContext(sid) ==
    /\ IF sid \in DOMAIN sessions
       THEN sessions' = [sessions EXCEPT ![sid] = CloseEffect(@, now)]
       ELSE UNCHANGED sessions
    /\ UNCHANGED <<contexts, uuid, calls, now, spawnLog>>
    /\ UNCHANGED routerVars

CloseSession(sid) ==
    /\ IF sid \in DOMAIN sessions
       THEN /\ sessions' = [sessions EXCEPT ![sid] = CloseEffect(@, now)]
            /\ contexts' = contexts \ {sid}
       ELSE UNCHANGED <<sessions, contexts>>
    /\ UNCHANGED <<uuid, calls, now, spawnLog>>
    /\ UNCHANGED routerVars

----------------------------------------------------------------------------
(* The clock                                                               *)

\* The time that passes between two observations of the clock: a little more
\* than the default inactivity timeout.
TickMs == DefaultTimeout + 1

Tick ==
    /\ now < MaxTime * TickMs
    /\ now' = now + TickMs
    /\ UNCHANGED <<sessions, contexts, uuid, calls, spawnLog>>
    /\ UNCHANGED routerVars

----------------------------------------------------------------------------
(* analyzeIntent                                                           *)

Includes(m, words) == m.kw \cap words # {}

\* (variant: the analysis keywords are looked for first)
analyzeIntentAnalysisFirst(m) ==
    LET base ==
          IF Includes(m, {"analyze", "examine", "study"})
          THEN [type |-> "analysis", confidence10 |-> 8,
                requiredCapabilities |-> <<"data_analysis", "pattern_recognition">>]
          ELSE IF Includes(m, {"search", "find", "look up"})
          THEN [type |-> "information_retrieval", confidence10 |-> 8,
                requiredCapabilities |-> <<"web_search", "data_analysis">>]
          ELSE IF Includes(m, {"create", "generate", "make"})
          THEN [type |-> "content_creation", confidence10 |-> 8,
                requiredCapabilities |-> <<"content_generation", "creative_writing">>]
          ELSE IF Includes(m, {"solve", "calculate", "compute"})
          THEN [type |-> "problem_solving", confidence10 |-> 8,
                requiredCapabilities |-> <<"calculation", "logical_reasoning">>]
          ELSE IF Includes(m, {"explain", "teach", "how"})
          THEN [type |-> "educational", confidence10 |-> 7,
                requiredCapabilities |-> <<"knowledge_synthesis", "explanation">>]
          ELSE [type |-> "unknown", confidence10 |-> 5,
                requiredCapabilities |-> <<>>]
    IN  [type |-> base.type, confidence10 |-> base.confidence10,
         requiredCapabilities |-> base.requiredCapabilities,
         complexity |-> "medium"]

\* confidence is kept in tenths (0.8 is 8).
analyzeIntent(m) ==
    LET base ==
          IF Includes(m, {"search", "find", "look up"})
          THEN [type |-> "information_retrieval", confidence10 |-> 8,
                requiredCapabilities |-> <<"web_search", "data_analysis">>]
          ELSE IF Includes(m, {"analyze", "examine", "study"})
          THEN [type |-> "analysis", confidence10 |-> 8,
                requiredCapabilities |-> <<"data_analysis", "pattern_recognition">>]
          ELSE IF Includes(m, {"create", "generate", "make"})
          THEN [type |-> "content_creation", confidence10 |-> 8,
                requiredCapabilities |-> <<"content_generation", "creative_writing">>]
          ELSE IF Includes(m, {"solve", "calculate", "compute"})
          THEN [type |-> "problem_solving", confidence10 |-> 8,
                requiredCapabilities |-> <<"calculation", "logical_reasoning">>]
          ELSE IF Includes(m, {"explain", "teach", "how"})
          THEN [type |-> "educational", confidence10 |-> 7,
                requiredCapabilities |-> <<"knowledge_synthesis", "explanation">>]
          ELSE [type |-> "unknown", confidence10 |-> 5,
                requiredCapabilities |-> <<>>]
        complexity ==
          IF m.len > 500 \/ Includes(m, {"complex", "detailed"}) THEN "high"
          ELSE IF m.len < 50 THEN "low"
          ELSE "medium"
    IN  [type |-> base.type, confidence10 |-> base.confidence10,
         requiredCapabilities |-> base.requiredCapabilities,
         complexity |-> complexity]

NoIntent ==
    [type |-> "none", confidence10 |-> 0, requiredCapabilities |-> <<>>,
     complexity |-> "medium"]

----------------------------------------------------------------------------
(* createRoutingPlan                                                       *)

PlanStep(action, agent, tools) ==
    [action |-> action, agent |-> agent, tools |-> tools]

\* (variant: the estimate counts one step more than the plan has)
PlanOfCountingOneMore(intent, requiredAgents, requiredTools, steps) ==
    [intent |-> intent,
     requiredAgents |-> requiredAgents, requiredTools |-> requiredTools,
     steps |-> steps, estimatedDuration |-> (Len(steps) + 1) * PerStepCost]

\* The plan object: it echoes the intent it was built for. Its planId, a
\* fresh uuid that nothing reads, is not kept.
PlanOf(intent, requiredAgents, requiredTools, steps) ==
    [intent |-> intent,
     requiredAgents |-> requiredAgents, requiredTools |-> requiredTools,
     steps |-> steps, estimatedDuration |-> Len(steps) * PerStepCost]

createRoutingPlan(intent) ==
    CASE intent.type = "information_retrieval" ->
           PlanOf(intent, <<"research_agent">>, <<"web_search">>,
                  << PlanStep("search_information", "research_agent", {"web_search"}),
                     PlanStep("synthesize_results", "analysis_agent", {"content_generation"}) >>)
      [] intent.type = "analysis" ->
           PlanOf(intent, <<"analysis_agent">>, <<"file_analysis", "calculation">>,
                  << PlanStep("analyze_data", "analysis_agent", {"file_analysis"}),
                     PlanStep("generate_insights", "analysis_agent", {"calculation"}) >>)
      [] intent.type = "content_creation" ->
           PlanOf(intent, <<"creative_agent">>, <<"content_generation">>,
                  << PlanStep("plan_content", "creative_agent", {}),
                     PlanStep("generate_content", "creative_agent", {"content_generation"}) >>)
      [] intent.type = "problem_solving" ->
           PlanOf(intent, <<"problem_solver_agent">>, <<"calculation", "code_execution">>,
                  << PlanStep("analyze_problem", "problem_solver_agent", {}),
                     PlanStep("solve_problem", "problem_solver_agent",
                              {"calculation", "code_execution"}) >>)
      [] OTHER ->
           PlanOf(intent, <<"research_agent", "analysis_agent">>,
                  <<"web_search", "content_generation">>,
                  << PlanStep("gather_information", "research_agent", {"web_search"}),
                     PlanStep("process_response", "analysis_agent", {"content_generation"}) >>)

NoPlan == PlanOf(NoIntent, <<>>, <<>>, <<>>)

----------------------------------------------------------------------------
(* executeAgentAction                                                      *)

\* The actions whose case awaits a perform* method before the result is
\* appended to the instance's history; every other action appends at once.
AwaitedActions ==
    {"search_information", "analyze_data", "generate_content", "solve_problem"}

ActionData(action, tools, agentId) ==
    CASE action = "search_information" ->
           IF "web_search" \in tools
           THEN <<"Performed web search and found relevant information.">>
           ELSE <<"Web search not available.">>
      [] action = "analyze_data" ->
           IF "file_analysis" \in tools
           THEN <<"Analyzed data and identified key patterns.">>
           ELSE <<"Data analysis not available.">>
      [] action = "generate_content" ->
           IF "content_generation" \in tools
           THEN <<"Generated comprehensive content based on requirements.">>
           ELSE <<"Content generation not available.">>
      [] action = "solve_problem" ->
           IF "calculation" \in tools
           THEN <<"Solved the problem using mathematical analysis.">>
           ELSE <<"Problem solving tools not available.">>
      [] OTHER -> <<"Executed ", action, " with agent ", agentId>>

ActionResult(step, instanceId) ==
    [action |-> step.action, agentId |-> instanceId[1], instanceId |-> instanceId,
     data |-> ActionData(step.action, step.tools, instanceId[1])]

NoResult ==
    [action |-> "none", agentId |-> "none", instanceId |-> <<"none", <<0, 0>>>>,
     data |-> <<>>]

\* (variant: the result is put at the front of the history)
PushHistoryFront(session, instanceId, result) ==
    [session EXCEPT
        !.agentContexts[instanceId].executionHistory = <<result>> \o @]

\* agentInstance.executionHistory.push(actionResult)
PushHistory(session, instanceId, result) ==
    [session EXCEPT
        !.agentContexts[instanceId].executionHistory = Append(@, result)]

----------------------------------------------------------------------------
(* executeStep                                                             *)

\* Array.from(agentContexts.values()).find(agent => agent.agentId === step.agent):
\* the first instance of the template in insertion order, 0 when there is none.
InstancesOf(session, agentId) ==
    {id \in DOMAIN session.agentContexts :
        session.agentContexts[id].agentId = agentId}

FindInstance(session, agentId) ==
    LET S == InstancesOf(session, agentId)
    IN  CHOOSE id \in S : \A o \in S : id[2][2] <= o[2][2]

StepExecution(step, status, result) ==
    [action |-> step.action, agentId |-> step.agent, tools |-> step.tools,
     status |-> status, result |-> result]

\* The synchronous start of step k of a call: executeStep up to its first
\* await, or up to the throw of its catch block, which rejects the promise
\* executePlan awaits.
\* Gives the call and its session afterwards.
BeginStep(call, session, k) ==
    LET step == call.plan.steps[k]
    IN  IF InstancesOf(session, step.agent) = {}
        THEN [call |-> [call EXCEPT !.pc = "throwing",
                                    !.error = ErrAgentMissing, !.k = k,
                                    !.stepStatus = "failed"],
              session |-> session]
        ELSE LET inst == FindInstance(session, step.agent)
                 res == ActionResult(step, inst)
             IN  IF step.action \in AwaitedActions
                 THEN [call |-> [call EXCEPT !.pc = "action", !.k = k,
                                             !.stepStatus = "executing",
                                             !.result = res],
                       session |-> session]
                 ELSE [call |-> [call EXCEPT !.pc = "stepret", !.k = k,
                                             !.stepStatus = "executing",
                                             !.result = res],
                       session |-> PushHistory(session, inst, res)]

\* "Based on my analysis:", then `${index + 1}. ${result.data}` for every
\* result with data, then the closing remark.
OpeningLine == "Based on my analysis:"
ClosingRemark ==
    "This response was generated using multiple AI agents working together through the Model Context Protocol."

\* (variant: the entries are numbered from 0)
EnumeratedFromZero(results) ==
    SelectSeq([i \in 1..Len(results) |-> <<i - 1, results[i].data>>],
              LAMBDA e : e[2] # <<>>)

Enumerated(results) ==
    LET kept == SelectSeq([i \in 1..Len(results) |-> <<i, results[i].data>>],
                          LAMBDA e : e[2] # <<>>)
    IN  kept

synthesizeResponse(results) ==
    <<OpeningLine>> \o Enumerated(results) \o <<ClosingRemark>>

\* (variant: the loop stops before the plan's last step)
RunStepsBeforeLast(call, session, k) ==
    IF k >= Len(call.plan.steps)
    THEN [call |-> [call EXCEPT
                       !.pc = "completed", !.status = "completed",
                       !.response = synthesizeResponse(
                                       [i \in 1..Len(call.steps) |-> call.steps[i].result])],
          session |-> session]
    ELSE BeginStep(call, session, k)

\* The steps loop of executePlan from step k on: the next step begins, or
\* with no step left the execution is completed.
RunSteps(call, session, k) ==
    IF k > Len(call.plan.steps)
    THEN [call |-> [call EXCEPT
                       !.pc = "completed", !.status = "completed",
                       !.response = synthesizeResponse(
                                       [i \in 1..Len(call.steps) |-> call.steps[i].result])],
          session |-> session]
    ELSE BeginStep(call, session, k)

----------------------------------------------------------------------------
(* processMessage and executePlan                                          *)

IdleCall ==
    [pc |-> "idle", sid |-> 0, message |-> [kw |-> {}, len |-> 0],
     intent |-> NoIntent, plan |-> NoPlan, ei |-> 0, k |-> 0,
     stepStatus |-> "none", result |-> NoResult, steps |-> <<>>,
     status |-> "none", error |-> NoError, response |-> <<>>]

\* (variant: an instance counts only once it has executed an action)
HasInstanceThatRan(session, agentId) ==
    \E id \in session.activeAgents :
        /\ id \in DOMAIN session.agentContexts
        /\ session.agentContexts[id].agentId = agentId
        /\ session.agentContexts[id].executionHistory # <<>>

\* session.activeAgents has an instance of the template.
HasInstance(session, agentId) ==
    \E id \in session.activeAgents :
        /\ id \in DOMAIN session.agentContexts
        /\ session.agentContexts[id].agentId = agentId

\* (variant: every required agent from `from` on counts as missing)
FirstMissingAlways(session, requiredAgents, from) ==
    IF from <= Len(requiredAgents) THEN from ELSE 0

\* The first index from `from` on of a required agent without an instance,
\* 0 when every required agent from there on has one.
FirstMissing(session, requiredAgents, from) ==
    LET M == {i \in from..Len(requiredAgents) :
                 ~HasInstance(session, requiredAgents[i])}
    IN  IF M = {} THEN 0 ELSE CHOOSE i \in M : \A j \in M : i <= j

\* The error processMessage throws at its session check, or NoError.
ProcessError(sid) ==
    IF ~SessionUsable(sid) THEN ErrInvalidSession ELSE NoError

\* processMessage up to `await this.analyzeIntent(...)`. The model follows
\* MaxCalls accepted calls, each in a slot of its own.
ProcessMessage(c, sid, m) ==
    /\ calls[c].pc = "idle"
    /\ \A d \in DOMAIN calls : d < c => calls[d].pc # "idle"
    /\ IF ProcessError(sid) # NoError
       THEN UNCHANGED <<sessions, calls>>
       ELSE /\ sessions' = [sessions EXCEPT
                              ![sid].lastActivity = now,
                              ![sid].messageHistory = Append(@, m)]
            /\ calls' = [calls EXCEPT
                           ![c] = [IdleCall EXCEPT !.pc = "intent", !.sid = sid,
                                                   !.message = m,
                                                   !.intent = analyzeIntent(m)]]
    /\ UNCHANGED <<contexts, uuid, now, spawnLog>>
    /\ UNCHANGED routerVars

\* ... up to `await this.createRoutingPlan(...)`.
RoutePlan(c) ==
    /\ calls[c].pc = "intent"
    /\ calls' = [calls EXCEPT ![c].pc = "plan",
                              ![c].plan = createRoutingPlan(calls[c].intent)]
    /\ UNCHANGED <<sessions, contexts, uuid, now, spawnLog>>
    /\ UNCHANGED routerVars

\* executePlan's loop over plan.requiredAgents from index `from`, up to the
\* next await: a spawn (awaited), a spawn that throws (its rejected promise
\* is awaited), or, with every required agent present, the start of the
\* first step. The execution record exists with status 'executing'.
EnsureFrom(c, from) ==
    LET call == [calls[c] EXCEPT !.status = "executing"]
        sid == call.sid
        session == sessions[sid]
        i == FirstMissing(session, call.plan.requiredAgents, from)
    IN  IF i = 0
        THEN LET r == RunSteps(call, session, 1)
             IN  /\ calls' = [calls EXCEPT ![c] = r.call]
                 /\ sessions' = [sessions EXCEPT ![sid] = r.session]
                 /\ UNCHANGED <<uuid, spawnLog>>
        ELSE LET agentId == call.plan.requiredAgents[i]
                 err == SpawnError(sid, agentId)
             IN  /\ IF err = NoError
                    THEN /\ sessions' = [sessions EXCEPT
                                ![sid] = SpawnInto(@, sid, agentId,
                                                   Uuid(sid, uuid[sid] + 1))]
                         /\ uuid' = [uuid EXCEPT ![sid] = @ + 1]
                         /\ spawnLog' = [spawnLog EXCEPT
                                ![sid] = Append(@, NewInstanceId(agentId,
                                                   Uuid(sid, uuid[sid] + 1)))]
                         /\ calls' = [calls EXCEPT
                                        ![c] = [call EXCEPT !.pc = "ensure",
                                                            !.ei = i + 1]]
                    ELSE /\ calls' = [calls EXCEPT
                                        ![c] = [call EXCEPT !.pc = "throwing",
                                                            !.error = err]]
                         /\ UNCHANGED <<sessions, uuid, spawnLog>>

\* executePlan from its start (the continuation after createRoutingPlan).
ExecutePlan(c) ==
    /\ calls[c].pc = "plan"
    /\ calls[c].status = "none"
    /\ EnsureFrom(c, 1)
    /\ UNCHANGED <<contexts, now>>
    /\ UNCHANGED routerVars

\* The continuation after `await this.spawnAgent(...)`.
EnsureResume(c) ==
    /\ calls[c].pc = "ensure"
    /\ EnsureFrom(c, calls[c].ei)
    /\ UNCHANGED <<contexts, now>>
    /\ UNCHANGED routerVars

\* The continuation of executeAgentAction after its awaited perform* call:
\* the result is appended to the instance's history.
AgentAction(c) ==
    /\ calls[c].pc = "action"
    /\ sessions' = [sessions EXCEPT
                      ![calls[c].sid] =
                          PushHistory(@, calls[c].result.instanceId, calls[c].result)]
    /\ calls' = [calls EXCEPT ![c].pc = "stepret"]
    /\ UNCHANGED <<contexts, uuid, now, spawnLog>>
    /\ UNCHANGED routerVars

\* (variant: the message of the failed call is taken out of the history)
PlanCatchDroppingMessage(c) ==
    /\ calls[c].pc = "throwing"
    /\ calls' = [calls EXCEPT ![c].pc = "failed", ![c].status = "failed"]
    /\ sessions' = [sessions EXCEPT
                      ![calls[c].sid].messageHistory = SubSeq(@, 1, Len(@) - 1)]
    /\ UNCHANGED <<contexts, uuid, now, spawnLog>>
    /\ UNCHANGED routerVars

\* The continuation after an awaited promise was rejected: executePlan's
\* catch marks the execution failed and rethrows.
PlanCatch(c) ==
    /\ calls[c].pc = "throwing"
    /\ calls' = [calls EXCEPT ![c].pc = "failed", ![c].status = "failed"]
    /\ UNCHANGED <<sessions, contexts, uuid, now, spawnLog>>
    /\ UNCHANGED routerVars

\* executeStep returns to executePlan: the step is pushed to execution.steps
\* and the loop goes on with the next step.
StepReturn(c) ==
    LET call == calls[c]
        done == [call EXCEPT
                   !.stepStatus = "completed",
                   !.steps = Append(@, StepExecution(call.plan.steps[call.k],
                                                     "completed", call.result))]
        r == RunSteps(done, sessions[call.sid], call.k + 1)
    IN  /\ call.pc = "stepret"
        /\ calls' = [calls EXCEPT ![c] = r.call]
        /\ sessions' = [sessions EXCEPT ![call.sid] = r.session]
        /\ UNCHANGED <<contexts, uuid, now, spawnLog>>
        /\ UNCHANGED routerVars

----------------------------------------------------------------------------
(* Rational numbers <<numerator, denominator>>, denominator > 0, in lowest   *)
(* terms: the values of the performance statistics and of the scores.        *)

Abs(n) == IF n < 0 THEN -n ELSE n

RECURSIVE GCD(_, _)
GCD(a, b) == IF b = 0 THEN a ELSE GCD(b, a % b)

Rat(n, d) ==
    LET g == GCD(Abs(n), d)
    IN  IF n = 0 THEN <<0, 1>> ELSE <<n \div g, d \div g>>

R(n) == <<n, 1>>
RAdd(a, b) == Rat(a[1] * b[2] + b[1] * a[2], a[2] * b[2])
RSub(a, b) == Rat(a[1] * b[2] - b[1] * a[2], a[2] * b[2])
RMulInt(a, k) == Rat(a[1] * k, a[2])
RDivInt(a, k) == Rat(a[1], a[2] * k)
RLess(a, b) == a[1] * b[2] < b[1] * a[2]

----------------------------------------------------------------------------
(* LLMModel documents                                                      *)

\* The schema's defaults of `performance`.
DefaultPerformance ==
    [averageLatency |-> R(0), successRate |-> R(100), userSatisfaction |-> R(5),
     totalRequests |-> 0, errorCount |-> 0]

\* The statistics registerTrainedModel stores for a trained model
\* (validationAccuracy 0.85).
TrainedPerformance ==
    [averageLatency |-> R(2000), successRate |-> R(85),
     userSatisfaction |-> Rat(9, 2), totalRequests |-> 0, errorCount |-> 0]

DocChat ==
    [name |-> "m1", type |-> "gemini", specialization |-> "chat",
     maxContextLength |-> 4096, performance |-> DefaultPerformance]

DocTrained ==
    [name |-> "m2", type |-> "custom", specialization |-> "reasoning",
     maxContextLength |-> 2048, performance |-> TrainedPerformance]

\* A second document of the schema's defaults, of the same type and
\* specialization as DocChat.
DocTwin ==
    [name |-> "m3", type |-> "gemini", specialization |-> "chat",
     maxContextLength |-> 4096, performance |-> DefaultPerformance]

\* The contents of the collection when the router is constructed.
DbChoices ==
    {<<>>, <<DocChat>>, <<DocChat, DocTrained>>, <<DocTrained, DocChat>>,
     <<DocTwin, DocChat>>}

ModelNames == {"m1", "m2"}

\* Inputs of updateModelPerformance: a falsy userRating (0) is skipped.
UpdateNames == {"m1", "m2", "mX"}
MetricsInputs ==
    { [latency |-> 100, success |-> TRUE,  userRating |-> 5],
      [latency |-> 400, success |-> FALSE, userRating |-> 0] }

\* Inputs of routeRequest: the request type, content.length, and the
\* preferredLLM of the caller's profile ("none": no profile).
RequestTypes == {"chat", "analysis", "story"}
ContentLengths == {100, 5000}
Preferences == {"none", "custom"}

UpdateIds == 1..MaxUpdates
RouteIds == 1..MaxRoutes

----------------------------------------------------------------------------
(* initializeModels                                                        *)

RECURSIVE ZeroLoads(_, _)
ZeroLoads(docs, n) ==
    IF n = 0 THEN <<>> ELSE (docs[n].name :> 0) @@ ZeroLoads(docs, n - 1)

InitializeModels ==
    /\ ~initialized
    /\ initialized' = TRUE
    /\ llmModels' = db
    /\ loadBalancer' = ZeroLoads(db, Len(db))
    /\ UNCHANGED <<db, updates, routes, outcomes, overlapped>>
    /\ UNCHANGED mcpVars

----------------------------------------------------------------------------
(* calculateModelScore and selectOptimalModel                              *)

\* (variant: the analysis requests are rewarded as technical ones)
SpecializationForShifted(requestType) ==
    CASE requestType \in {"chat", "conversation"} -> "chat"
      [] requestType \in {"reasoning", "problem_solving"} -> "reasoning"
      [] requestType \in {"technical", "code", "engineering", "analysis"} -> "technical"
      [] requestType \in {"creative", "content_generation"} -> "creative"
      [] requestType \in {"academic", "educational"} -> "academic"
      [] OTHER -> "none"

\* The specialization the switch rewards for a request type ("none": the
\* switch has no case for the type).
SpecializationFor(requestType) ==
    CASE requestType \in {"chat", "conversation"} -> "chat"
      [] requestType \in {"reasoning", "analysis", "problem_solving"} -> "reasoning"
      [] requestType \in {"technical", "code", "engineering"} -> "technical"
      [] requestType \in {"creative", "content_generation"} -> "creative"
      [] requestType \in {"academic", "educational"} -> "academic"
      [] OTHER -> "none"

CurrentLoad(name) ==
    IF name \in DOMAIN loadBalancer THEN loadBalancer[name] ELSE 0

ExceedsContext(model, contentLength) == contentLength > model.maxContextLength

calculateModelScore(model, requestType, contentLength, preferredLLM) ==
    LET match == IF model.specialization = SpecializationFor(requestType)
                 THEN 50 ELSE 0
        latency == RSub(R(100), RDivInt(model.performance.averageLatency, 10))
        success == RDivInt(RMulInt(model.performance.successRate, 3), 10)
        satisfaction == RMulInt(model.performance.userSatisfaction, 10)
        preference == IF preferredLLM = model.type THEN 20 ELSE 0
        load == CurrentLoad(model.name) * 2
        penalty == IF ExceedsContext(model, contentLength) THEN 100 ELSE 0
    IN  RAdd(RAdd(RAdd(latency, success), satisfaction),
             R(match + preference - load - penalty))

RECURSIVE InsertByScore(_, _)
RECURSIVE InsertByScoreBeforeEqual(_, _)
\* (variant: an element is placed before the elements of equal score)
InsertByScoreBeforeEqual(sorted, x) ==
    IF sorted = <<>> THEN <<x>>
    ELSE IF ~RLess(x.score, Head(sorted).score) THEN <<x>> \o sorted
    ELSE <<Head(sorted)>> \o InsertByScoreBeforeEqual(Tail(sorted), x)

\* modelScores.sort((a, b) => b.score - a.score): a stable sort, highest
\* score first. Insert x into the sorted sequence after every element whose
\* score is not lower.
InsertByScore(sorted, x) ==
    IF sorted = <<>> THEN <<x>>
    ELSE IF RLess(Head(sorted).score, x.score) THEN <<x>> \o sorted
    ELSE <<Head(sorted)>> \o InsertByScore(Tail(sorted), x)

RECURSIVE SortByScore(_, _)
SortByScore(scored, n) ==
    IF n = 0 THEN <<>> ELSE InsertByScore(SortByScore(scored, n - 1), scored[n])

NoModel == "null"

\* The name of the model selectOptimalModel returns, NoModel for null.
selectOptimalModel(requestType, contentLength, preferredLLM) ==
    LET modelScores ==
          [i \in 1..Len(llmModels) |->
              [model |-> llmModels[i].name,
               score |-> calculateModelScore(llmModels[i], requestType,
                                             contentLength, preferredLLM)]]
        sorted == SortByScore(modelScores, Len(modelScores))
    IN  IF Len(sorted) > 0 THEN sorted[1].model ELSE NoModel

----------------------------------------------------------------------------
(* routeRequest                                                            *)

ErrNoModel == "No suitable LLM model found for request"

IdleRoute ==
    [pc |-> "idle", requestType |-> "none", contentLength |-> 0,
     preferredLLM |-> "none", selected |-> NoModel, error |-> NoError]

\* routeRequest up to `await UserProfile.findOne(...)`.
RouteRequest(r, requestType, contentLength, preferredLLM) ==
    /\ routes[r].pc = "idle"
    /\ \A q \in RouteIds : q < r => routes[q].pc # "idle"
    /\ routes' = [routes EXCEPT
                    ![r] = [IdleRoute EXCEPT !.pc = "profile",
                                             !.requestType = requestType,
                                             !.contentLength = contentLength,
                                             !.preferredLLM = preferredLLM]]
    /\ UNCHANGED <<db, llmModels, loadBalancer, initialized, updates,
                   outcomes, overlapped>>
    /\ UNCHANGED mcpVars

\* The profile is there: selectOptimalModel runs, and is awaited.
RouteSelect(r) ==
    /\ routes[r].pc = "profile"
    /\ routes' = [routes EXCEPT
                    ![r].pc = "selected",
                    ![r].selected = selectOptimalModel(routes[r].requestType,
                                                       routes[r].contentLength,
                                                       routes[r].preferredLLM)]
    /\ UNCHANGED <<db, llmModels, loadBalancer, initialized, updates,
                   outcomes, overlapped>>
    /\ UNCHANGED mcpVars

\* (variant: the load counter of every model is incremented)
RouteDispatchCountingAll(r) ==
    /\ routes[r].pc = "selected"
    /\ IF routes[r].selected = NoModel
       THEN /\ routes' = [routes EXCEPT ![r].pc = "failed", ![r].error = ErrNoModel]
            /\ UNCHANGED loadBalancer
       ELSE /\ routes' = [routes EXCEPT ![r].pc = "done"]
            /\ loadBalancer' = [n \in DOMAIN loadBalancer |-> loadBalancer[n] + 1]
    /\ UNCHANGED <<db, llmModels, initialized, updates, outcomes, overlapped>>
    /\ UNCHANGED mcpVars

\* The continuation: the throw for no model, or the load counter's increment.
RouteDispatch(r) ==
    /\ routes[r].pc = "selected"
    /\ IF routes[r].selected = NoModel
       THEN /\ routes' = [routes EXCEPT ![r].pc = "failed", ![r].error = ErrNoModel]
            /\ UNCHANGED loadBalancer
       ELSE /\ routes' = [routes EXCEPT ![r].pc = "done"]
            /\ loadBalancer' = [loadBalancer EXCEPT ![routes[r].selected] = @ + 1]
    /\ UNCHANGED <<db, llmModels, initialized, updates, outcomes, overlapped>>
    /\ UNCHANGED mcpVars

----------------------------------------------------------------------------
(* updateModelPerformance                                                  *)

\* (variant: the old mean is weighted with n instead of n - 1)
IncrementalMeanStaleWeight(oldMean, n, sample) ==
    RDivInt(RAdd(RMulInt(oldMean, n), R(sample)), n)

\* newMean = (oldMean * (n - 1) + sample) / n, n the incremented count.
IncrementalMean(oldMean, n, sample) ==
    RDivInt(RAdd(RMulInt(oldMean, n - 1), R(sample)), n)

\* (variant: a failed sample leaves the success rate as it is)
UpdatedPerformanceKeepingRate(perf, metrics) ==
    LET n == perf.totalRequests + 1
    IN  [ totalRequests  |-> n,
          averageLatency |-> IncrementalMean(perf.averageLatency, n, metrics.latency),
          successRate    |-> IF metrics.success
                             THEN IncrementalMean(perf.successRate, n, 100)
                             ELSE perf.successRate,
          errorCount     |-> IF metrics.success THEN perf.errorCount
                             ELSE perf.errorCount + 1,
          userSatisfaction |-> IF metrics.userRating # 0
                               THEN IncrementalMean(perf.userSatisfaction, n,
                                                    metrics.userRating)
                               ELSE perf.userSatisfaction ]

\* The document after the method's assignments.
UpdatedPerformance(perf, metrics) ==
    LET n == perf.totalRequests + 1
    IN  [ totalRequests  |-> n,
          averageLatency |-> IncrementalMean(perf.averageLatency, n, metrics.latency),
          successRate    |-> IF metrics.success
                             THEN IncrementalMean(perf.successRate, n, 100)
                             ELSE IncrementalMean(perf.successRate, n, 0),
          errorCount     |-> IF metrics.success THEN perf.errorCount
                             ELSE perf.errorCount + 1,
          userSatisfaction |-> IF metrics.userRating # 0
                               THEN IncrementalMean(perf.userSatisfaction, n,
                                                    metrics.userRating)
                               ELSE perf.userSatisfaction ]

\* LLMModel.findOne({ name }): the index of the document, 0 for none.
FindOne(name) ==
    LET S == {i \in 1..Len(db) : db[i].name = name}
    IN  IF S = {} THEN 0 ELSE CHOOSE i \in S : \A j \in S : i <= j

\* model.save(): the document's modified paths are written, the paths it did
\* not change keep what is stored.
SavedPerformance(stored, loaded, doc) ==
    [f \in DOMAIN stored |-> IF doc[f] # loaded[f] THEN doc[f] ELSE stored[f]]

IdleUpdate ==
    [pc |-> "idle", name |-> "none", metrics |-> [latency |-> 0, success |-> TRUE,
                                                  userRating |-> 0],
     loaded |-> DefaultPerformance, doc |-> DefaultPerformance]

\* An update of the model is between its load and its save.
InUpdate(name) ==
    \E u \in UpdateIds : updates[u].name = name /\ updates[u].pc = "save"

\* updateModelPerformance up to `await LLMModel.findOne(...)`.
UpdateModelPerformance(u, name, metrics) ==
    /\ updates[u].pc = "idle"
    /\ \A v \in UpdateIds : v < u => updates[v].pc # "idle"
    /\ updates' = [updates EXCEPT
                     ![u] = [IdleUpdate EXCEPT !.pc = "find", !.name = name,
                                               !.metrics = metrics]]
    /\ UNCHANGED <<db, llmModels, loadBalancer, initialized, routes,
                   outcomes, overlapped>>
    /\ UNCHANGED mcpVars

\* findOne resolves: the loaded document is updated and save() is called.
UpdateLoad(u) ==
    LET i == FindOne(updates[u].name)
    IN  /\ updates[u].pc = "find"
        /\ IF i = 0
           THEN /\ updates' = [updates EXCEPT ![u].pc = "done"]
                /\ UNCHANGED overlapped
           ELSE /\ updates' = [updates EXCEPT
                                 ![u].pc = "save",
                                 ![u].loaded = db[i].performance,
                                 ![u].doc = UpdatedPerformance(db[i].performance,
                                                               updates[u].metrics)]
                /\ overlapped' = [overlapped EXCEPT
                                    ![updates[u].name] = @ \/ InUpdate(updates[u].name)]
        /\ UNCHANGED <<db, llmModels, loadBalancer, initialized, routes, outcomes>>
        /\ UNCHANGED mcpVars

\* save() is applied to the collection.
UpdateSave(u) ==
    LET i == FindOne(updates[u].name)
    IN  /\ updates[u].pc = "save"
        /\ db' = [db EXCEPT
                    ![i].performance = SavedPerformance(@, updates[u].loaded,
                                                        updates[u].doc)]
        /\ updates' = [updates EXCEPT ![u].pc = "done"]
        /\ outcomes' = [outcomes EXCEPT
                          ![updates[u].name] = Append(@, updates[u].metrics)]
        /\ UNCHANGED <<llmModels, loadBalancer, initialized, routes, overlapped>>
        /\ UNCHANGED mcpVars

----------------------------------------------------------------------------
(* Utility methods                                                         *)

\* Array.from(set): the members in insertion order, which within a session
\* is the order of the uuid ranks.
RECURSIVE ArrayFrom(_)
ArrayFrom(S) ==
    IF S = {} THEN <<>>
    ELSE LET first == CHOOSE id \in S : \A o \in S : id[2][2] <= o[2][2]
         IN  <<first>> \o ArrayFrom(S \ {first})

getSessionInfo(sid) ==
    IF sid \notin DOMAIN sessions THEN "null"
    ELSE [ activeAgents |-> ArrayFrom(sessions[sid].activeAgents),
           messageCount |-> Len(sessions[sid].messageHistory),
           lastActivity |-> sessions[sid].lastActivity,
           isActive     |-> sessions[sid].isActive ]

getSystemStats ==
    [ activeSessions |-> Cardinality({s \in DOMAIN sessions : sessions[s].isActive}),
      totalSessions  |-> Len(sessions),
      registeredAgents |-> Cardinality(DOMAIN RegisteredAgents),
      registeredTools  |-> Cardinality(RegisteredTools),
      totalContexts  |-> Cardinality(contexts) ]

----------------------------------------------------------------------------
McpInit ==
    /\ sessions = <<>>
    /\ contexts = {}
    /\ uuid = [s \in SessionIds |-> 0]
    /\ calls = [c \in CallIds |-> IdleCall]
    /\ now = 0
    /\ spawnLog = [s \in SessionIds |-> <<>>]

RouterIdle ==
    /\ llmModels = <<>>
    /\ loadBalancer = <<>>
    /\ initialized = FALSE
    /\ updates = [u \in UpdateIds |-> IdleUpdate]
    /\ routes = [r \in RouteIds |-> IdleRoute]
    /\ outcomes = [n \in ModelNames |-> <<>>]
    /\ overlapped = [n \in ModelNames |-> FALSE]

\* The protocol object after construction; the router is left aside.
Init ==
    /\ McpInit
    /\ db = <<>>
    /\ RouterIdle

Next ==
    \/ \E cfg \in SessionConfigs : CreateSession(cfg)
    \/ \E sid \in SessionIds, a \in SpawnInputs : SpawnAgent(sid, a)
    \/ \E sid \in SessionIds : CloseSession(sid)
    \/ \E c \in CallIds, sid \in SessionIds, m \in Messages : ProcessMessage(c, sid, m)
    \/ \E c \in CallIds : RoutePlan(c)
    \/ \E c \in CallIds : ExecutePlan(c)
    \/ \E c \in CallIds : EnsureResume(c)
    \/ \E c \in CallIds : AgentAction(c)
    \/ \E c \in CallIds : StepReturn(c)
    \/ \E c \in CallIds : PlanCatch(c)
    \/ Tick

Spec == Init /\ [][Next]_vars

\* Sessions that only receive messages: up to MaxOverlap processMessage
\* calls, which may run on the same session at the same time.
OverlapIds == 1..MaxOverlap

MessagesInit ==
    /\ sessions = <<>>
    /\ contexts = {}
    /\ uuid = [s \in SessionIds |-> 0]
    /\ calls = [c \in OverlapIds |-> IdleCall]
    /\ now = 0
    /\ spawnLog = [s \in SessionIds |-> <<>>]
    /\ db = <<>>
    /\ RouterIdle

Resume(c) ==
    \/ RoutePlan(c)
    \/ ExecutePlan(c)
    \/ EnsureResume(c)
    \/ AgentAction(c)
    \/ StepReturn(c)
    \/ PlanCatch(c)

MessagesNext ==
    \/ \E cfg \in SessionConfigs : CreateSession(cfg)
    \/ \E c \in OverlapIds, sid \in SessionIds, m \in Messages : ProcessMessage(c, sid, m)
    \/ \E c \in OverlapIds : Resume(c)

SpecMessages == MessagesInit /\ [][MessagesNext]_vars

\* The continuation of a settled promise is always run.
FairMessages == SpecMessages /\ \A c \in OverlapIds : WF_vars(Resume(c))

\* Classification and planning: messages that include any of the keywords
\* below, one of each of analyzeIntent's keyword lists, sent to sessions of
\* the default configuration and followed up to the routing plan.
IntentKeywords == {"find", "study", "make", "compute", "teach"}

IntentMessages == {[kw |-> K, len |-> 60] : K \in SUBSET IntentKeywords}

IntentNext ==
    \/ CreateSession([has |-> FALSE, maxAgents |-> 0])
    \/ \E c \in OverlapIds, sid \in SessionIds, m \in IntentMessages :
          ProcessMessage(c, sid, m)
    \/ \E c \in OverlapIds : RoutePlan(c)

SpecIntent == MessagesInit /\ [][IntentNext]_vars

\* The router after construction, over a collection of stored models; the
\* protocol object is left aside.
RouterInit ==
    /\ McpInit
    /\ db \in DbChoices
    /\ RouterIdle

\* Routing: initializeModels and the routeRequest calls.
RouterNext ==
    \/ InitializeModels
    \/ \E r \in RouteIds, t \in RequestTypes, l \in ContentLengths, p \in Preferences :
          RouteRequest(r, t, l, p)
    \/ \E r \in RouteIds : RouteSelect(r)
    \/ \E r \in RouteIds : RouteDispatch(r)

SpecRouter == RouterInit /\ [][RouterNext]_vars

\* Performance statistics: initializeModels and the updateModelPerformance
\* calls.
StatsNext ==
    \/ InitializeModels
    \/ \E u \in UpdateIds, n \in UpdateNames, m \in MetricsInputs :
          UpdateModelPerformance(u, n, m)
    \/ \E u \in UpdateIds : UpdateLoad(u)
    \/ \E u \in UpdateIds : UpdateSave(u)

SpecStats == RouterInit /\ [][StatsNext]_vars

\* Routing and statistics together: one updateModelPerformance call beside
\* the routeRequest calls of short chat requests.
FeedbackNext ==
    \/ InitializeModels
    \/ \E n \in UpdateNames, m \in MetricsInputs : UpdateModelPerformance(1, n, m)
    \/ UpdateLoad(1)
    \/ UpdateSave(1)
    \/ \E r \in RouteIds, p \in Preferences : RouteRequest(r, "chat", 100, p)
    \/ \E r \in RouteIds : RouteSelect(r)
    \/ \E r \in RouteIds : RouteDispatch(r)

SpecFeedback == RouterInit /\ [][FeedbackNext]_vars

----------------------------------------------------------------------------
(* Claims about sessions, agents and plan execution                        *)

AgentCount(s) == Cardinality(sessions[s].activeAgents)

Max0(n) == IF n < 0 THEN 0 ELSE n

C1_CapacityInv ==
    \A s \in DOMAIN sessions :
        /\ AgentCount(s) <= Max0(sessions[s].maxAgents)
        /\ (sessions[s].isActive /\ AgentCount(s) >= sessions[s].maxAgents)
              => \A a \in DOMAIN RegisteredAgents : SpawnError(s, a) = ErrMaxAgents

C1_CapacityStep ==
    \A s \in DOMAIN sessions :
        AgentCount(s) >= sessions[s].maxAgents
            => sessions'[s].activeAgents = sessions[s].activeAgents

C2_ClosedInv ==
    \A s \in DOMAIN sessions :
        ~sessions[s].isActive =>
            /\ ProcessError(s) = ErrInvalidSession
            /\ \A a \in SpawnInputs \cup DOMAIN RegisteredAgents :
                  SpawnError(s, a) = ErrInvalidSession

C2_ClosedStep ==
    \A s \in DOMAIN sessions :
        ~sessions[s].isActive =>
            /\ ~sessions'[s].isActive
            /\ sessions'[s].activeAgents = sessions[s].activeAgents
            /\ sessions'[s].messageHistory = sessions[s].messageHistory

C2_ClosedStaysClosed == []C2_ClosedInv /\ [][C2_ClosedStep]_vars

\* A closed session with agents and messages, and a call still in flight on it.
C2_Witness ==
    \E s \in DOMAIN sessions :
        /\ ~sessions[s].isActive
        /\ sessions[s].activeAgents # {}
        /\ sessions[s].messageHistory # <<>>
        /\ \E c \in CallIds : calls[c].sid = s /\ calls[c].pc = "stepret"

\* C3 (as stated): closeSession on a session that is already closed changes
\* nothing in the session store or the context store.
C3_SecondCloseIsNoOp ==
    [][\A s \in DOMAIN sessions :
          (~sessions[s].isActive /\ CloseSession(s))
              => UNCHANGED <<sessions, contexts>>]_vars

\* C4 (as stated): no execution is failed by a closeSession that came after
\* its processMessage passed the session check: no call ends with the
\* inactive-session error.
C4_InFlightNotFailedByClose ==
    \A c \in CallIds :
        calls[c].status = "failed" => calls[c].error # ErrInvalidSession

\* C5 (as stated): an execution that failed at step k holds exactly k entries
\* in execution.steps (the k-1 completed steps and the failed one).
C5_FailedStepRecorded ==
    \A c \in CallIds :
        (calls[c].status = "failed" /\ calls[c].stepStatus = "failed")
            => Len(calls[c].steps) = calls[c].k

\* The instance ids successful spawnAgent calls returned for session s.
Returned(s) == {spawnLog[s][i] : i \in 1..Len(spawnLog[s])}

\* C6: getSessionInfo(s).activeAgents lists, each once, exactly the instance
\* ids the successful spawnAgent calls for s returned.
C6_ActiveAgentsRoundTrip ==
    \A s \in DOMAIN sessions :
        LET listed == getSessionInfo(s).activeAgents
        IN  /\ {listed[i] : i \in 1..Len(listed)} = Returned(s)
            /\ Len(listed) = Len(spawnLog[s])

\* A closed session with an instance spawned explicitly and one spawned
\* while ensuring a plan's agents.
C6_Witness ==
    \E s \in DOMAIN sessions :
        /\ ~sessions[s].isActive
        /\ \E x, y \in sessions[s].activeAgents :
              x[1] = "research_agent" /\ y[1] = "creative_agent"

\* C7: no two successful spawns return the same instance id, and every
\* instance of a session's agent set records that session as its own and is
\* in no other session's agent set.
C7_UniqueInstanceIds ==
    /\ \A s, t \in SessionIds :
          \A i \in 1..Len(spawnLog[s]), j \in 1..Len(spawnLog[t]) :
              (s # t \/ i # j) => spawnLog[s][i] # spawnLog[t][j]
    /\ \A s \in DOMAIN sessions :
          \A id \in sessions[s].activeAgents :
              /\ sessions[s].agentContexts[id].sessionId = s
              /\ \A t \in DOMAIN sessions : id \in sessions[t].activeAgents => t = s

\* The same template spawned twice in one session and once in another.
C7_Witness ==
    \E s, t \in DOMAIN sessions :
        /\ s # t
        /\ Cardinality(InstancesOf(sessions[s], "research_agent")) >= 2
        /\ InstancesOf(sessions[t], "research_agent") # {}

----------------------------------------------------------------------------
(* Claims about the performance statistics and the model selection          *)

StoredPerformance(name) == db[FindOne(name)].performance

RECURSIVE SumLatency(_, _)
SumLatency(ms, n) == IF n = 0 THEN 0 ELSE ms[n].latency + SumLatency(ms, n - 1)

Failures(ms) == Cardinality({i \in 1..Len(ms) : ~ms[i].success})

\* C8: after N updates of a stored model whose load-to-save sections did not
\* overlap, totalRequests is N and, for N >= 1, averageLatency is the
\* arithmetic mean of the N recorded latencies.
C8_RunningMean ==
    \A name \in ModelNames :
        (FindOne(name) # 0 /\ ~overlapped[name]) =>
            LET N == Len(outcomes[name])
                perf == StoredPerformance(name)
            IN  /\ perf.totalRequests = N
                /\ N >= 1 => perf.averageLatency = Rat(SumLatency(outcomes[name], N), N)

\* Three updates one after another, of different latencies, of the model
\* stored with the placeholder latency.
C8_Witness ==
    /\ FindOne("m2") # 0
    /\ ~overlapped["m2"]
    /\ Len(outcomes["m2"]) >= 3
    /\ \E i, j \in 1..Len(outcomes["m2"]) :
          outcomes["m2"][i].latency # outcomes["m2"][j].latency

\* C9 (as stated): when no update of a model is under way, its totalRequests
\* is the number of updates made and its errorCount the number of failed
\* ones, whatever the interleaving.
C9_NoLostUpdate ==
    \A name \in ModelNames :
        (FindOne(name) # 0
            /\ \A u \in UpdateIds :
                  updates[u].name = name => updates[u].pc \in {"idle", "done"})
        => /\ StoredPerformance(name).totalRequests = Len(outcomes[name])
           /\ StoredPerformance(name).errorCount = Failures(outcomes[name])

\* C10 (as stated): when the content is longer than the maxContextLength of
\* every registered model, selectOptimalModel returns no model, and no
\* routeRequest call holds a selected model.
C10_OverlongNotFound ==
    /\ \A t \in RequestTypes, l \in ContentLengths, p \in Preferences :
          (\A i \in 1..Len(llmModels) : ExceedsContext(llmModels[i], l))
              => selectOptimalModel(t, l, p) = NoModel
    /\ \A r \in RouteIds :
          (routes[r].pc \in {"selected", "done"} /\ routes[r].selected # NoModel)
              => \E i \in 1..Len(llmModels) :
                    ~ExceedsContext(llmModels[i], routes[r].contentLength)

ScoreOf(i, t, l, p) == calculateModelScore(llmModels[i], t, l, p)

\* C11: selectOptimalModel returns a model of maximal score, the first such
\* in the registry's iteration order, and no model when the registry is
\* empty; routeRequest fails exactly when no model was selected.
C11_FirstOfHighestScore ==
    /\ \A t \in RequestTypes, l \in ContentLengths, p \in Preferences :
          LET sel == selectOptimalModel(t, l, p)
          IN  IF Len(llmModels) = 0 THEN sel = NoModel
              ELSE \E i \in 1..Len(llmModels) :
                     /\ llmModels[i].name = sel
                     /\ \A j \in 1..Len(llmModels) :
                           ~RLess(ScoreOf(i, t, l, p), ScoreOf(j, t, l, p))
                     /\ \A j \in 1..(i - 1) :
                           RLess(ScoreOf(j, t, l, p), ScoreOf(i, t, l, p))
    /\ \A r \in RouteIds :
          /\ routes[r].pc = "failed" =>
                routes[r].selected = NoModel /\ routes[r].error = ErrNoModel
          /\ routes[r].pc = "done" =>
                routes[r].selected # NoModel /\ routes[r].error = NoError
          /\ (routes[r].pc = "selected" /\ routes[r].selected # NoModel) =>
                llmModels # <<>>

\* Two registered models tie for the highest score and a routeRequest call
\* holds the first of them as its selection, after another call failed on
\* the registry that was still empty.
C11_Witness ==
    /\ Len(llmModels) = 2
    /\ \E r \in RouteIds :
          /\ routes[r].pc = "selected"
          /\ routes[r].selected = llmModels[1].name
          /\ ScoreOf(1, routes[r].requestType, routes[r].contentLength,
                     routes[r].preferredLLM)
               = ScoreOf(2, routes[r].requestType, routes[r].contentLength,
                         routes[r].preferredLLM)
    /\ \E r \in RouteIds : routes[r].pc = "failed"

----------------------------------------------------------------------------
(* Claims about classification, planning and execution                      *)

\* The fixed order of the intent types with their keywords and confidence
\* (in tenths).
IntentTable ==
    << [type |-> "information_retrieval", words |-> {"search", "find", "look up"}, confidence10 |-> 8],
       [type |-> "analysis", words |-> {"analyze", "examine", "study"}, confidence10 |-> 8],
       [type |-> "content_creation", words |-> {"create", "generate", "make"}, confidence10 |-> 8],
       [type |-> "problem_solving", words |-> {"solve", "calculate", "compute"}, confidence10 |-> 8],
       [type |-> "educational", words |-> {"explain", "teach", "how"}, confidence10 |-> 7] >>

Matching(m) == {i \in DOMAIN IntentTable : m.kw \cap IntentTable[i].words # {}}

\* C12: a classified message has the type and the confidence of the first
\* entry of the table one of whose keywords it includes, type unknown with
\* confidence 0.5 when it includes none; and two calls with the same message
\* have the same intent, whatever their sessions. "search for thermodynamics
\* papers" is an information_retrieval of confidence 0.8.
C12_FirstMatchingIntent ==
    /\ analyzeIntent([kw |-> {"search"}, len |-> 32]).type = "information_retrieval"
    /\ analyzeIntent([kw |-> {"search"}, len |-> 32]).confidence10 = 8
    /\ \A c \in DOMAIN calls :
          calls[c].pc # "idle" =>
             LET m == calls[c].message
                 intent == calls[c].intent
             IN  IF Matching(m) = {}
                 THEN intent.type = "unknown" /\ intent.confidence10 = 5
                 ELSE \E i \in Matching(m) :
                        /\ \A j \in Matching(m) : i <= j
                        /\ intent.type = IntentTable[i].type
                        /\ intent.confidence10 = IntentTable[i].confidence10
    /\ \A c, d \in DOMAIN calls :
          (calls[c].pc # "idle" /\ calls[d].pc # "idle"
              /\ calls[c].message = calls[d].message)
             => calls[c].intent = calls[d].intent

\* A message that includes keywords of the second, third and fifth list is
\* classified, and the same message was classified on another session.
C12_Witness ==
    \E c, d \in DOMAIN calls :
          /\ c # d
          /\ calls[c].pc # "idle" /\ calls[d].pc # "idle"
          /\ calls[c].sid # calls[d].sid
          /\ calls[c].message = calls[d].message
          /\ calls[c].message.kw = {"study", "make", "teach"}
          /\ calls[c].intent.type = "analysis"

\* The calls with a content_creation message on a session of the default
\* configuration.
IsCreation(c) ==
    /\ calls[c].pc # "idle"
    /\ calls[c].intent.type = "content_creation"
    /\ sessions[calls[c].sid].maxAgents = DefaultMaxAgents

CreationResults ==
    << <<1, <<"Executed ", "plan_content", " with agent ", "creative_agent">>>>,
       <<2, <<"Generated comprehensive content based on requirements.">>>> >>

C13_CreationInv ==
    \A c \in DOMAIN calls :
        IsCreation(c) =>
            /\ calls[c].pc \notin {"throwing", "failed"}
            /\ calls[c].pc \notin {"idle", "intent"} =>
                  \E i \in DOMAIN calls[c].plan.requiredAgents :
                      calls[c].plan.requiredAgents[i] = "creative_agent"
            /\ calls[c].status = "completed" =>
                  /\ HasInstance(sessions[calls[c].sid], "creative_agent")
                  /\ calls[c].response
                        = <<OpeningLine>> \o CreationResults \o <<ClosingRemark>>

HistoryCap == MaxOverlap - 1

\* C14 (as stated): the message history of a session never holds more than
\* the cap: when a processMessage would exceed it, the oldest entries are
\* evicted.
C14_HistoryBounded ==
    \A s \in DOMAIN sessions : Len(sessions[s].messageHistory) <= HistoryCap

\* C15 (as stated): once the time since a session's last activity exceeds its
\* timeout, processMessage and spawnAgent on it are rejected.
C15_RejectedAfterTimeout ==
    \A s \in DOMAIN sessions :
        now - sessions[s].lastActivity > sessions[s].timeout
            => /\ ProcessError(s) = ErrInvalidSession
               /\ \A a \in DOMAIN RegisteredAgents :
                     SpawnError(s, a) = ErrInvalidSession

Unusable(sid) == sid \notin DOMAIN sessions \/ ~sessions[sid].isActive

C16_CheckOrder ==
    \A sid \in SessionIds :
        /\ Unusable(sid) =>
              /\ ProcessError(sid) = ErrInvalidSession
              /\ \A a \in SpawnInputs \cup DOMAIN RegisteredAgents :
                    SpawnError(sid, a) = ErrInvalidSession
        /\ ~Unusable(sid) =>
              /\ \A a \in SpawnInputs \ DOMAIN RegisteredAgents :
                    SpawnError(sid, a) = ErrAgentNotFound
              /\ \A a \in DOMAIN RegisteredAgents :
                    SpawnError(sid, a) =
                        IF AgentCount(sid) >= sessions[sid].maxAgents
                        THEN ErrMaxAgents ELSE NoError

C16_NoSideEffect ==
    /\ \A s \in DOMAIN sessions :
          /\ s \in DOMAIN sessions'
          /\ ~sessions[s].isActive =>
                /\ sessions'[s].activeAgents = sessions[s].activeAgents
                /\ sessions'[s].messageHistory = sessions[s].messageHistory
                /\ sessions'[s].lastActivity = sessions[s].lastActivity
                /\ s \in contexts' => s \in contexts
          /\ \A id \in sessions'[s].activeAgents \ sessions[s].activeAgents :
                id[1] \in DOMAIN RegisteredAgents
    /\ \A s \in DOMAIN sessions' \ DOMAIN sessions :
          /\ sessions'[s].activeAgents = {}
          /\ sessions'[s].messageHistory = <<>>

\* C16: spawnAgent and processMessage on a missing or inactive session fail
\* with the session error, spawnAgent with an unknown template on a usable
\* session fails with the template error even at capacity, and the capacity
\* error comes last; no step changes the agent set, the message history or
\* the last activity of an inactive session, gives it a context again, adds
\* an instance of an unregistered template, or brings a missing session
\* into being with agents or messages.
C16_LookupFailuresAreClean == []C16_CheckOrder /\ [][C16_NoSideEffect]_vars

\* A closed session at its agent limit beside a usable session at its agent
\* limit: a spawn of the unknown template fails several checks on both.
C16_Witness ==
    \E s, t \in DOMAIN sessions :
        /\ ~sessions[s].isActive /\ sessions[s].activeAgents # {}
        /\ AtCapacity(sessions[s])
        /\ sessions[t].isActive /\ sessions[t].activeAgents # {}
        /\ AtCapacity(sessions[t])

RequiredSet(plan) == {plan.requiredAgents[i] : i \in DOMAIN plan.requiredAgents}

\* C17 (as stated): every step of a call's plan names an agent of the plan's
\* requiredAgents, and no call fails because the agent of a step is missing
\* from its session.
C17_PlansNameTheirAgents ==
    \A c \in DOMAIN calls :
        /\ calls[c].pc \notin {"idle", "intent"} =>
              \A k \in DOMAIN calls[c].plan.steps :
                  calls[c].plan.steps[k].agent \in RequiredSet(calls[c].plan)
        /\ calls[c].error # ErrAgentMissing

StepsBegun(c) == calls[c].k >= 1 \/ calls[c].pc \in {"action", "stepret", "completed"}

C18_EnsureInv ==
    \A c \in DOMAIN calls :
        /\ StepsBegun(c) =>
              \A a \in RequiredSet(calls[c].plan) :
                  HasInstance(sessions[calls[c].sid], a)
        /\ calls[c].error = ErrMaxAgents =>
              calls[c].k = 0 /\ calls[c].steps = <<>> /\ ~StepsBegun(c)

\* The index the ensure loop of call c goes on from.
EnsureIndex(c) == IF calls[c].pc = "plan" THEN 1 ELSE calls[c].ei

C18_EnsureStep ==
    /\ \A s \in DOMAIN sessions, a \in DOMAIN RegisteredAgents :
          InstancesOf(sessions'[s], a) # InstancesOf(sessions[s], a) =>
              /\ InstancesOf(sessions[s], a) = {}
              /\ Cardinality(InstancesOf(sessions'[s], a)) = 1
              /\ \E c \in DOMAIN calls :
                    /\ calls[c].sid = s /\ calls'[c] # calls[c]
                    /\ a \in RequiredSet(calls[c].plan)
    /\ \A c \in DOMAIN calls :
          (calls[c].pc \in {"plan", "ensure"} /\ calls'[c] # calls[c]
              /\ FirstMissing(sessions[calls[c].sid], calls[c].plan.requiredAgents,
                              EnsureIndex(c)) # 0
              /\ AtCapacity(sessions[calls[c].sid]))
             => calls'[c].pc = "throwing" /\ calls'[c].error = ErrMaxAgents

\* C18: once the steps of an execution have begun every required template
\* has an instance in the session; a step adds an instance of a template
\* only to a session that had none of it, one instance, for a call that
\* requires it; an execution whose ensure phase finds a required template
\* missing on a session at its agent limit fails with the capacity error,
\* and an execution failed so has run no step.
C18_EnsureSpawnsOnlyMissing == []C18_EnsureInv /\ [][C18_EnsureStep]_vars

\* The same message was processed twice on a session limited to one agent,
\* which holds the one creative_agent instance the first call spawned.
C18_Witness ==
    \E c, d \in DOMAIN calls :
          /\ c # d
          /\ calls[c].sid = calls[d].sid
          /\ calls[c].message = calls[d].message
          /\ calls[c].status = "completed" /\ calls[d].status = "completed"
          /\ Cardinality(InstancesOf(sessions[calls[c].sid], "creative_agent")) = 1
          /\ AgentCount(calls[c].sid) = 1
          /\ sessions[calls[c].sid].maxAgents = 1

\* The default plan (two required agents) failed with the capacity error on
\* a session limited to one agent, after its first agent was spawned.
C18_WitnessCapacity ==
    \E c \in DOMAIN calls :
        /\ calls[c].status = "failed" /\ calls[c].error = ErrMaxAgents
        /\ sessions[calls[c].sid].maxAgents = 1
        /\ AgentCount(calls[c].sid) = 1

\* C20: on sessions that only receive messages, whatever the interleaving of
\* the calls, a session holds at most one instance of each template and at
\* most max(maxAgents, 0) instances.
C20_OneInstancePerTemplate ==
    \A s \in DOMAIN sessions :
        /\ \A a \in DOMAIN RegisteredAgents :
              Cardinality(InstancesOf(sessions[s], a)) <= 1
        /\ AgentCount(s) <= Max0(sessions[s].maxAgents)

\* Two calls of the same plan are in flight on one session: one waits for the
\* spawn it made, the other found the instance and is in its steps.
C20_Witness ==
    \E c, d \in DOMAIN calls :
        /\ c # d
        /\ calls[c].sid = calls[d].sid
        /\ calls[c].plan = calls[d].plan
        /\ calls[c].pc = "ensure"
        /\ calls[d].pc \in {"action", "stepret"}

StatusMoves ==
    { <<"none", "executing">>, <<"executing", "completed">>, <<"executing", "failed">> }

C19_ExecutionInv ==
    \A c \in DOMAIN calls :
        LET call == calls[c]
        IN  /\ Len(call.steps) <= Len(call.plan.steps)
            /\ \A i \in DOMAIN call.steps :
                  /\ call.steps[i].status = "completed"
                  /\ call.steps[i].action = call.plan.steps[i].action
                  /\ call.steps[i].agentId = call.plan.steps[i].agent
            /\ call.status = "completed" <=>
                  (call.status # "none" /\ Len(call.steps) = Len(call.plan.steps))
            /\ call.k >= 1 =>
                  Len(call.steps) = IF call.stepStatus = "completed"
                                    THEN call.k ELSE call.k - 1

C19_ExecutionStep ==
    \A c \in DOMAIN calls :
        LET old == calls[c]
            new == calls'[c]
        IN  /\ new.status = old.status \/ <<old.status, new.status>> \in StatusMoves
            /\ old.status \in {"completed", "failed"} => new = old
            /\ \/ /\ new.k = old.k
                  /\ \/ new.stepStatus = old.stepStatus
                     \/ /\ old.stepStatus = "executing"
                        /\ new.stepStatus \in {"completed", "failed"}
               \/ /\ new.k = old.k + 1
                  /\ old.k >= 1 => old.stepStatus = "executing"
                  /\ Len(new.steps) = old.k
                  /\ new.stepStatus \in {"executing", "failed"}
            /\ \/ new.steps = old.steps
               \/ /\ old.stepStatus = "executing"
                  /\ new.steps = Append(old.steps, new.steps[Len(new.steps)])
                  /\ Len(new.steps) = old.k

\* C19: the status of an execution only moves executing -> completed or
\* executing -> failed and then never changes; a step starts only when the
\* steps before it have their completed entries in execution.steps, in plan
\* order; the status is completed exactly when every step of the plan has
\* its entry; a step's status only moves executing -> completed or
\* executing -> failed.
C19_ExecutionLifecycle == []C19_ExecutionInv /\ [][C19_ExecutionStep]_vars

\* An execution completed with both steps recorded, on a session that was
\* closed meanwhile.
C19_Witness ==
    \E c \in DOMAIN calls :
        /\ calls[c].status = "completed"
        /\ Len(calls[c].steps) = 2
        /\ calls[c].stepStatus = "completed"
        /\ ~sessions[calls[c].sid].isActive

----------------------------------------------------------------------------
(* Claims about routing, statistics and the stores                          *)

\* C21 (as stated): the statistics calculateModelScore reads of a registered
\* model are the ones updateModelPerformance has stored for it.
C21_ScorerReadsStoredStatistics ==
    \A i \in 1..Len(llmModels) :
        FindOne(llmModels[i].name) # 0 =>
            llmModels[i].performance = StoredPerformance(llmModels[i].name)

RoutedTo(name) ==
    {r \in RouteIds : routes[r].pc = "done" /\ routes[r].selected = name}

C22_LoadInv ==
    /\ \A name \in DOMAIN loadBalancer :
          loadBalancer[name] = Cardinality(RoutedTo(name))
    /\ \A r \in RouteIds :
          routes[r].pc = "done" => routes[r].selected \in DOMAIN loadBalancer

C22_LoadStep ==
    \A r \in RouteIds :
        (routes[r].pc = "selected" /\ routes'[r].pc # "selected") =>
            IF routes'[r].pc = "done"
            THEN \A name \in DOMAIN loadBalancer :
                    loadBalancer'[name] =
                        loadBalancer[name]
                            + (IF name = routes[r].selected THEN 1 ELSE 0)
            ELSE routes'[r].pc = "failed" /\ loadBalancer' = loadBalancer

\* C22: a routeRequest that returns a model adds one to the load counter of
\* that model and leaves the other counters alone, one that fails for want
\* of a model changes no counter, and whatever the interleaving each counter
\* is the number of calls that returned its model.
C22_LoadCountsRoutes == []C22_LoadInv /\ [][C22_LoadStep]_vars

\* Of two registered models each was returned by a route: both counters
\* are 1.
C22_Witness ==
    /\ Len(llmModels) = 2
    /\ \A i \in 1..2 : loadBalancer[llmModels[i].name] = 1
    /\ \E r \in RouteIds : routes[r].pc = "done"

\* The request types with the specialization each is mapped to.
SpecializationTable ==
    { <<"chat", "chat">>, <<"conversation", "chat">>,
      <<"reasoning", "reasoning">>, <<"analysis", "reasoning">>,
      <<"problem_solving", "reasoning">>,
      <<"technical", "technical">>, <<"code", "technical">>,
      <<"engineering", "technical">>,
      <<"creative", "creative">>, <<"content_generation", "creative">>,
      <<"academic", "academic">>, <<"educational", "academic">> }

\* The score in tenths of a point, as one fraction:
\* 10 * (bonus + 100 + preference - 2 * load - penalty)
\*    - averageLatency + 3 * successRate + 100 * userSatisfaction.
ScoreTenths(model, t, l, p) ==
    LET bonus == IF <<t, model.specialization>> \in SpecializationTable
                 THEN 50 ELSE 0
        preference == IF p = model.type THEN 20 ELSE 0
        penalty == IF l > model.maxContextLength THEN 100 ELSE 0
        whole == 10 * (bonus + 100 + preference
                         - 2 * CurrentLoad(model.name) - penalty)
    IN  RAdd(R(whole),
             RAdd(RSub(RMulInt(model.performance.successRate, 3),
                       model.performance.averageLatency),
                  RMulInt(model.performance.userSatisfaction, 100)))

\* C23: the score of a registered model is 50 for a specialization that
\* matches the request type under the mapping, plus 100 - averageLatency/10,
\* plus successRate * 0.3, plus userSatisfaction * 10, plus 20 for the
\* preferred type, minus twice the load counter, minus 100 for content longer
\* than maxContextLength; the mapping is the table's, and any other request
\* type earns no bonus.
C23_ScoreFormula ==
    /\ \A e \in SpecializationTable : SpecializationFor(e[1]) = e[2]
    /\ \A t \in {"story", "casual", "unknown"} : SpecializationFor(t) = "none"
    /\ \A i \in 1..Len(llmModels) :
          \A t \in RequestTypes, l \in ContentLengths, p \in Preferences :
              RMulInt(calculateModelScore(llmModels[i], t, l, p), 10)
                  = ScoreTenths(llmModels[i], t, l, p)

\* The trained model is registered beside a model that carries load: its
\* score has a fractional part, the bonus for analysis and the preference for
\* custom apply to it, and long content is penalised.
C23_Witness ==
    /\ \E i \in 1..Len(llmModels) :
          /\ llmModels[i].name = "m2"
          /\ calculateModelScore(llmModels[i], "analysis", 5000, "custom")
                = Rat(-119, 2)
    /\ \E n \in DOMAIN loadBalancer : loadBalancer[n] >= 2

\* C24: after N >= 1 updates of a stored model whose load-to-save sections
\* did not overlap, errorCount is the number of failed outcomes and
\* successRate is 100 * (N - errorCount) / N; in every state the successRate
\* of every stored model is between 0 and 100.
C24_SuccessRate ==
    /\ \A name \in ModelNames :
          (FindOne(name) # 0 /\ ~overlapped[name] /\ Len(outcomes[name]) >= 1) =>
              LET N == Len(outcomes[name])
                  perf == StoredPerformance(name)
              IN  /\ perf.errorCount = Failures(outcomes[name])
                  /\ perf.successRate = Rat(100 * (N - perf.errorCount), N)
    /\ \A i \in 1..Len(db) :
          /\ ~RLess(db[i].performance.successRate, R(0))
          /\ ~RLess(R(100), db[i].performance.successRate)

\* Three updates one after another of the model of default statistics, one
\* of them failed.
C24_Witness ==
    /\ FindOne("m1") # 0
    /\ ~overlapped["m1"]
    /\ Len(outcomes["m1"]) >= 3
    /\ Failures(outcomes["m1"]) = 1
    /\ StoredPerformance("m1").successRate = Rat(200, 3)

HistoryOf(s, id) == sessions[s].agentContexts[id].executionHistory

RECURSIVE HistoryEntries(_, _)
HistoryEntries(s, ids) ==
    IF ids = {} THEN 0
    ELSE LET id == CHOOSE x \in ids : TRUE
         IN  Len(HistoryOf(s, id)) + HistoryEntries(s, ids \ {id})

\* The steps of call c whose action has run: the recorded ones and the one
\* whose result executeStep is about to return.
StepsRun(c) == Len(calls[c].steps) + (IF calls[c].pc = "stepret" THEN 1 ELSE 0)

RECURSIVE StepsRunOn(_, _)
StepsRunOn(s, cs) ==
    IF cs = {} THEN 0
    ELSE LET c == CHOOSE x \in cs : TRUE
         IN  (IF calls[c].sid = s THEN StepsRun(c) ELSE 0) + StepsRunOn(s, cs \ {c})

C25_HistoryInv ==
    /\ \A c \in DOMAIN calls :
          /\ \A i \in DOMAIN calls[c].steps :
                LET r == calls[c].steps[i].result
                    h == HistoryOf(calls[c].sid, r.instanceId)
                IN  /\ r.action = calls[c].plan.steps[i].action
                    /\ \E j \in DOMAIN h : h[j] = r
          /\ calls[c].pc = "stepret" =>
                LET h == HistoryOf(calls[c].sid, calls[c].result.instanceId)
                IN  \E j \in DOMAIN h : h[j] = calls[c].result
    /\ \A s \in DOMAIN sessions :
          HistoryEntries(s, DOMAIN sessions[s].agentContexts)
              = StepsRunOn(s, DOMAIN calls)

C25_HistoryStep ==
    \A s \in DOMAIN sessions :
        \A id \in DOMAIN sessions[s].agentContexts :
            /\ id \in DOMAIN sessions'[s].agentContexts
            /\ LET old == sessions[s].agentContexts[id].executionHistory
                   new == sessions'[s].agentContexts[id].executionHistory
               IN  \/ new = old
                   \/ /\ Len(new) = Len(old) + 1
                      /\ new = Append(old, new[Len(new)])
                      /\ \E c \in DOMAIN calls :
                            /\ calls'[c].pc = "stepret"
                            /\ calls[c].pc = "stepret" => calls'[c].k = calls[c].k + 1
                            /\ calls'[c].result = new[Len(new)]

\* C25: the result recorded for a step is an entry of the execution history
\* of the instance that ran it; a history only grows, by one entry at its
\* end, which is the result of the step whose action has just run; and the
\* entries of a session's instances are as many as the steps run on it, so a
\* step that was not attempted left none.
C25_ResultInStepAndHistory == []C25_HistoryInv /\ [][C25_HistoryStep]_vars

\* Two calls completed on one session with the same creative_agent instance,
\* whose history holds their four results.
C25_Witness ==
    \E c, d \in DOMAIN calls :
        /\ c # d
        /\ calls[c].sid = calls[d].sid
        /\ calls[c].status = "completed" /\ calls[d].status = "completed"
        /\ \E id \in DOMAIN sessions[calls[c].sid].agentContexts :
              Len(HistoryOf(calls[c].sid, id)) = 4

\* C26 (as stated): a closed session holds no agent instance: its agent set
\* and its per-agent contexts are empty, and getSessionInfo lists no agent.
C26_AgentsDestroyedOnClose ==
    \A s \in DOMAIN sessions :
        ~sessions[s].isActive =>
            /\ sessions[s].activeAgents = {}
            /\ DOMAIN sessions[s].agentContexts = {}
            /\ getSessionInfo(s).activeAgents = <<>>

\* The intents createRoutingPlan can be given: every type analyzeIntent
\* produces and one it does not, with every confidence and complexity.
C27_Intents ==
    [ type : {"information_retrieval", "analysis", "content_creation",
              "problem_solving", "educational", "unknown", "smalltalk"},
      confidence10 : {5, 7, 8},
      requiredCapabilities : {<<>>},
      complexity : {"low", "medium", "high"} ]

\* The ordered steps of each intent type, <<action, agent, tools>>.
C27_StepTable(type) ==
    CASE type = "information_retrieval" ->
           << <<"search_information", "research_agent", {"web_search"}>>,
              <<"synthesize_results", "analysis_agent", {"content_generation"}>> >>
      [] type = "analysis" ->
           << <<"analyze_data", "analysis_agent", {"file_analysis"}>>,
              <<"generate_insights", "analysis_agent", {"calculation"}>> >>
      [] type = "content_creation" ->
           << <<"plan_content", "creative_agent", {}>>,
              <<"generate_content", "creative_agent", {"content_generation"}>> >>
      [] type = "problem_solving" ->
           << <<"analyze_problem", "problem_solver_agent", {}>>,
              <<"solve_problem", "problem_solver_agent",
                {"calculation", "code_execution"}>> >>
      [] OTHER ->
           << <<"gather_information", "research_agent", {"web_search"}>>,
              <<"process_response", "analysis_agent", {"content_generation"}>> >>

C27_StepsAsTable(plan) ==
    [i \in DOMAIN plan.steps |->
        <<plan.steps[i].action, plan.steps[i].agent, plan.steps[i].tools>>]

C27_PlanAsTabled(intent, plan) ==
    /\ C27_StepsAsTable(plan) = C27_StepTable(intent.type)
    /\ plan.estimatedDuration = Len(plan.steps) * 5000

\* C27: the steps, required agents, required tools and estimated duration of
\* a plan depend on intent.type only: two intents of one type get the same
\* ones whatever their confidence and complexity, each known type gets its
\* fixed ordered steps, every other type the two steps research_agent then
\* analysis_agent, and estimatedDuration is 5000 per step. The same holds
\* of the plan of every call, on whatever session it runs. (The plan object
\* also carries the intent it was built for.)
C27_PlanByTypeAlone ==
    /\ \A i \in C27_Intents :
          /\ C27_PlanAsTabled(i, createRoutingPlan(i))
          /\ \A j \in C27_Intents :
                i.type = j.type =>
                    LET p == createRoutingPlan(i)
                        q == createRoutingPlan(j)
                    IN  /\ p.steps = q.steps
                        /\ p.requiredAgents = q.requiredAgents
                        /\ p.requiredTools = q.requiredTools
                        /\ p.estimatedDuration = q.estimatedDuration
    /\ \A c \in DOMAIN calls :
          calls[c].pc \notin {"idle", "intent"} =>
              /\ calls[c].plan.intent = calls[c].intent
              /\ C27_PlanAsTabled(calls[c].intent, calls[c].plan)

\* Two calls on different sessions, one of an educational message and one of
\* a message matching no keyword, both hold the default plan.
C27_Witness ==
    \E c, d \in DOMAIN calls :
        /\ calls[c].pc = "plan" /\ calls[d].pc = "plan"
        /\ calls[c].sid # calls[d].sid
        /\ calls[c].intent.type = "educational"
        /\ calls[d].intent.type = "unknown"
        /\ calls[c].intent.confidence10 # calls[d].intent.confidence10
        /\ calls[c].plan.steps = calls[d].plan.steps
        /\ calls[c].plan.steps[1].agent = "research_agent"
        /\ calls[c].plan.steps[2].agent = "analysis_agent"
        /\ calls[c].plan.estimatedDuration = 10000

\* The calls that passed processMessage's check on session s.
AcceptedOn(s) == {c \in DOMAIN calls : calls[c].pc # "idle" /\ calls[c].sid = s}

C28_MessageInv ==
    \A s \in DOMAIN sessions :
        /\ getSessionInfo(s).messageCount = Cardinality(AcceptedOn(s))
        /\ \A c \in AcceptedOn(s) :
              \E i \in DOMAIN sessions[s].messageHistory :
                  sessions[s].messageHistory[i] = calls[c].message

C28_MessageStep ==
    \A s \in DOMAIN sessions :
        LET old == sessions[s].messageHistory
            new == sessions'[s].messageHistory
        IN  \/ new = old
            \/ /\ new = Append(old, new[Len(new)])
               /\ \E c \in DOMAIN calls :
                     /\ calls[c].pc = "idle" /\ calls'[c].pc = "intent"
                     /\ calls'[c].sid = s
                     /\ calls'[c].message = new[Len(new)]

\* C28: the message count of a session is the number of processMessage
\* calls that passed the check on it, whatever became of them, each of
\* their messages is in the history, and the history changes only by the
\* append of the message of a call that has just passed the check.
C28_AcceptedMessagesCounted == []C28_MessageInv /\ [][C28_MessageStep]_vars

\* Both calls on one session, one of them failed: both messages are counted.
C28_Witness ==
    \E c, d \in DOMAIN calls :
        /\ c # d
        /\ calls[c].sid = calls[d].sid
        /\ calls[c].status = "failed" /\ calls[c].pc = "failed"
        /\ calls[d].pc # "idle"
        /\ getSessionInfo(calls[c].sid).messageCount = 2

C29_ContextInv ==
    /\ \A s \in SessionIds :
          s \in contexts <=> (s \in DOMAIN sessions /\ sessions[s].isActive)
    /\ getSystemStats.totalContexts = getSystemStats.activeSessions
    /\ getSystemStats.activeSessions <= getSystemStats.totalSessions

C29_ContextStep ==
    /\ DOMAIN sessions \subseteq DOMAIN sessions'
    /\ getSystemStats'.totalSessions >= getSystemStats.totalSessions

\* C29: a session id has a stored context exactly when the session exists
\* and is active, so totalContexts = activeSessions <= totalSessions, and no
\* session leaves the session store.
C29_ContextsOfActiveSessions == []C29_ContextInv /\ [][C29_ContextStep]_vars

\* One session closed and one active: two sessions, one context.
C29_Witness ==
    /\ getSystemStats.totalSessions = 2
    /\ getSystemStats.activeSessions = 1
    /\ getSystemStats.totalContexts = 1
    /\ \E s \in DOMAIN sessions : ~sessions[s].isActive /\ s \notin contexts

\* C30 (as stated): the tools of every step of a call's plan are allowed to
\* the step's agent template and are among the plan's requiredTools.
C30_StepToolsAllowed ==
    \A c \in DOMAIN calls :
        calls[c].pc \notin {"idle", "intent"} =>
            \A k \in DOMAIN calls[c].plan.steps :
                LET step == calls[c].plan.steps[k]
                    required == {calls[c].plan.requiredTools[i] :
                                    i \in DOMAIN calls[c].plan.requiredTools}
                IN  /\ step.tools \subseteq RegisteredAgents[step.agent]
                    /\ step.tools \subseteq required

====
